---- MODULE Spec2Model ----
(***************************************************************************)
(* A model of the service locator of github.com/aziis98/go-sl (sl.go).     *)
(*                                                                         *)
(* The registry is the pair of maps of ServiceLocator.  Constructors and    *)
(* hook listeners are user code that calls back into the locator: they are *)
(* small programs, run by a call stack, and the composition root is the    *)
(* caller when the stack is empty.  One action is one library call up to   *)
(* the point where it hands control to user code, or one return of user    *)
(* code together with all the library code that runs until control is      *)
(* handed over again.                                                      *)
(*                                                                         *)
(* The maps hold pointers to entries.  A running ensureConfigured keeps    *)
(* the object it looked up, also when a registration puts a new object     *)
(* under the same key meanwhile.  An object is reachable from the map or   *)
(* only from such calls, so the model keeps the object of a key in the map *)
(* and moves it into the frames that hold it when the key is overwritten.  *)
(***************************************************************************)
EXTENDS Integers, Sequences, FiniteSets, TLC

\* ------------------------------------------------------------------ bounds

\* calls the composition root makes
MaxCalls == 5
\* call stack frames available before the Go runtime gives up (stack overflow)
MaxDepth == 6

\* ------------------------------------------------------------------ tokens

\* The slot variables of a program: three as in sl_test.go, and a second
\* slot of the type of ConfigSlot.
SlotNames == {"ConfigSlot", "LoggerSlot", "ExampleServiceSlot", "AltConfigSlot"}

HookNames == {"RoutesHook", "AltRoutesHook"}

\* The type parameter T of each token (getTypeName[T]).
getTypeName(n) ==
    CASE n = "ConfigSlot" -> "*Config"
      [] n = "AltConfigSlot" -> "*Config"
      [] n = "LoggerSlot" -> "*log.Logger"
      [] n = "ExampleServiceSlot" -> "*ExampleService"
      [] OTHER -> "Route"

\* NewSlot[T](): new(struct{}) converted to the defined type slot[T].  As a
\* map key of type any, the token is the pair of its dynamic type and its
\* address a.  The object is of size zero: the language lets every such
\* object share one address ("zerobase") or have its own.
NewSlot(n, a) == [type |-> "slot[" \o getTypeName(n) \o "]", addr |-> a]

NewHook(n, a) == [type |-> "hook[" \o getTypeName(n) \o "]", addr |-> a]

\* The package-level token variables, under the two layouts a build can
\* produce: all zero-size allocations at one address, or each at its own.
TokenLayouts ==
    { [slot |-> [n \in SlotNames |-> NewSlot(n, "zerobase")],
       hook |-> [n \in HookNames |-> NewHook(n, "zerobase")]],
      [slot |-> [n \in SlotNames |-> NewSlot(n, n)],
       hook |-> [n \in HookNames |-> NewHook(n, n)]] }

\* ------------------------------------------------------------------ values

\* error values; Nil is the nil error
Nil == [kind |-> "nil", of |-> ""]

\* fmt.Errorf(`no injected value for type %s`, getTypeName[T]())
NotRegistered(n) == [kind |-> "no injected value for type", of |-> getTypeName(n)]

\* the error a constructor or a listener returns on failure
FnError(f) == [kind |-> "failed", of |-> f]

\* the runtime error of a nil pointer dereference
NilDeref == [kind |-> "runtime error: nil pointer dereference", of |-> ""]

StackOverflowError == [kind |-> "fatal error: stack overflow", of |-> ""]

\* zero[T]()
zero == 0

\* what a call hands back: a value and an error, or a panic
Ok(v) == [kind |-> "ok", val |-> v, err |-> Nil]

Err(e) == [kind |-> "err", val |-> zero, err |-> e]

Panic(e) == [kind |-> "panic", val |-> zero, err |-> e]

Fatal(e) == [kind |-> "fatal", val |-> zero, err |-> e]

\* ------------------------------------------------------------ instructions

\* One call of user code into the locator.
Instr(op, slot, val, fn, hook, ls) ==
    [op |-> op, slot |-> slot, val |-> val, useArg |-> FALSE,
     fn |-> fn, hook |-> hook, ls |-> ls]

IProvide(s, v) == Instr("Provide", s, v, "", "", <<>>)

\* Provide(l, slot, payload) in a listener
IProvideArg(s) == [IProvide(s, 0) EXCEPT !.useArg = TRUE]

IProvideFunc(s, f) == Instr("ProvideFunc", s, 0, f, "", <<>>)

IResolve(op, s) == Instr(op, s, 0, "", "", <<>>)

IProvideHook(h, ls) == Instr("ProvideHook", "", 0, "", h, ls)

IDispatch(op, h, v) == Instr(op, "", v, "", h, <<>>)

NoCall == Instr("", "", 0, "", "", <<>>)

ResolveOps == {"Use", "MustUse", "Invoke", "MustInvoke"}

DispatchOps == {"UseHook", "MustUseHook"}

\* ---------------------------------------------------------------- user code

\* The constructors: those of TestBasic, and constructors that register
\* into the locator they are given.
Constructors == {"config", "logger", "service", "loader", "reprovide", "refunc"}

Listeners == {"mount", "deny", "rehook"}

\* The calls a function makes, in order, before it returns.
Prog(f) ==
    CASE f = "config" -> <<>>
      [] f = "logger" -> <<IResolve("MustUse", "ConfigSlot")>>
      [] f = "service" -> <<IResolve("Use", "ConfigSlot"),
                            IResolve("Use", "LoggerSlot")>>
      [] f = "loader" -> <<IResolve("Use", "LoggerSlot")>>
      [] f = "reprovide" -> <<IProvide("ConfigSlot", 5)>>
      [] f = "refunc" -> <<IProvideFunc("ConfigSlot", "config")>>
      [] f = "mount" -> <<IProvideArg("AltConfigSlot")>>
      [] f = "deny" -> <<>>
      [] f = "rehook" -> <<IProvideHook("RoutesHook", <<"deny">>)>>
      [] OTHER -> <<>>

\* The value a constructor builds is its own part plus the values of the
\* slots it used (Bar: config.Foo + " baz").
Base(f) ==
    CASE f = "config" -> 1
      [] f = "logger" -> 10
      [] f = "service" -> 20
      [] f = "loader" -> 2
      [] f = "reprovide" -> 3
      [] f = "refunc" -> 4
      [] OTHER -> 0

\* The functions whose own work can fail (godotenv.Load(), a refused route).
CanFail(f) == f \in {"config", "service", "deny"}

\* ------------------------------------------------------------------ state

VARIABLES
    tokens,     \* the token variables: [slot: name -> key, hook: name -> key]
    providers,  \* ServiceLocator.providers: slot key -> the slotEntry it points to
    hooks,      \* ServiceLocator.hooks: hook key -> the hookEntry it points to
    stack,      \* the calls in progress, innermost last
    last,       \* the last call the composition root made, what it got, and
                \* the functions it invoked, in order
    trace,      \* the functions the root's running call has invoked so far
    ncalls      \* the number of calls the composition root has made

vars == <<tokens, providers, hooks, stack, last, trace, ncalls>>

\* slotEntry{typeName, configureFunc, configured, value}; "" is a nil func.
\* calls counts the invocations of configureFunc (not a field of the code).
slotEntry(typeName, configureFunc, configured, value) ==
    [typeName |-> typeName, configureFunc |-> configureFunc,
     configured |-> configured, value |-> value, calls |-> 0]

\* hookEntry{typeName, listeners}
hookEntry(typeName, listeners) == [typeName |-> typeName, listeners |-> listeners]

NoKey == [type |-> "", addr |-> ""]

NoEntry == slotEntry("", "", FALSE, 0)

Frame(kind, call, key, fn, arg, ls, idx) ==
    [kind |-> kind, call |-> call, key |-> key, live |-> TRUE, obj |-> NoEntry,
     fn |-> fn, pc |-> 1, acc |-> 0, arg |-> arg, err |-> Nil,
     ls |-> ls, idx |-> idx]

\* A frame of user code: function f running for argument arg.
FnFrame(f, arg) == Frame("fn", NoCall, NoKey, f, arg, <<>>, 0)

\* useSlotValue waiting in slot.ensureConfigured for configureFunc.  slot
\* is the object the map had under key k: it is still there (live), or it
\* has been replaced in the map and the frame alone holds it (obj).
UseFrame(i, k) == Frame("use", i, k, "", 0, <<>>, 0)

\* UseHook waiting for listener idx of the listeners it ranges over.
HookFrame(i, ls, idx) == Frame("hook", i, NoKey, "", i.val, ls, idx)

\* New(): empty maps; nothing has been called.
Init ==
    /\ tokens \in TokenLayouts
    /\ providers = [k \in {} |-> NoEntry]
    /\ hooks = [k \in {} |-> hookEntry("", <<>>)]
    /\ stack = <<>>
    /\ last = [call |-> NoCall, res |-> Ok(0), trace |-> <<>>]
    /\ trace = <<>>
    /\ ncalls = 0

\* ------------------------------------------------------------- call stack

Top == stack[Len(stack)]

\* (mutant) an assignment that starts the map anew
Put_Fresh(m, k, v) == [x \in {k} |-> v]

\* the map m with key k set to v
Put(m, k, v) == [x \in DOMAIN m \cup {k} |-> IF x = k THEN v ELSE m[x]]

\* What the composition root may call.
RootCalls ==
    { IProvide("ConfigSlot", 5),
      IProvideFunc("ConfigSlot", "config"),
      IProvideFunc("LoggerSlot", "logger"),
      IProvideFunc("ExampleServiceSlot", "service"),
      IProvideFunc("ConfigSlot", "loader"),
      IProvideFunc("ConfigSlot", "reprovide"),
      IProvideFunc("ConfigSlot", "refunc") }
    \cup { IResolve("Use", s) : s \in SlotNames }
    \cup { IResolve(op, "ExampleServiceSlot") : op \in ResolveOps }
    \cup { IProvideHook("RoutesHook", ls) :
             ls \in { <<>>, <<"mount", "deny">>, <<"deny", "mount">>,
                      <<"rehook", "mount">> } }
    \cup { IDispatch("UseHook", "RoutesHook", 7),
           IDispatch("MustUseHook", "RoutesHook", 7),
           IDispatch("UseHook", "AltRoutesHook", 7) }

\* The call the running code makes next: the root's choice, or the
\* instruction at pc of the function on top of the stack.  A process the
\* runtime has ended calls nothing.
NextCalls ==
    IF last.res.kind = "fatal" THEN {}
    ELSE IF stack = <<>> THEN (IF ncalls < MaxCalls THEN RootCalls ELSE {})
    ELSE IF Top.kind = "fn" /\ Top.err = Nil /\ Top.pc <= Len(Prog(Top.fn))
         THEN LET i == Prog(Top.fn)[Top.pc]
              IN  {IF i.useArg THEN [i EXCEPT !.val = Top.arg] ELSE i}
         ELSE {}

\* User code gets the result of the call at its pc: on an error it returns
\* that error (if err != nil { return nil, err }), else it goes on, and
\* keeps the value of a Use or MustUse to build its own.
Resume(frame, res) ==
    IF res.kind = "err"
    THEN [frame EXCEPT !.err = res.err]
    ELSE [frame EXCEPT !.pc = @ + 1,
                       !.acc = IF Prog(frame.fn)[frame.pc].op \in {"Use", "MustUse"}
                               THEN @ + res.val ELSE @]

\* Call i returns res to the caller on top of stk, having invoked tr.  A
\* panic unwinds every frame (nothing recovers) and is what the root's own
\* call ends with.
Deliver(stk, i, res, tr) ==
    IF res.kind \in {"panic", "fatal"} \/ stk = <<>>
    THEN [stack |-> <<>>,
          last |-> [call |-> IF stk = <<>> THEN i ELSE stk[1].call,
                    res |-> res, trace |-> tr],
          trace |-> <<>>]
    ELSE [stack |-> [stk EXCEPT ![Len(stk)] = Resume(@, res)],
          last |-> last, trace |-> tr]

Returns(d) == stack' = d.stack /\ last' = d.last /\ trace' = d.trace

\* a call of the root counts; a call of user code does not
Counted == ncalls' = IF stack = <<>> THEN ncalls + 1 ELSE ncalls

\* A function is called ("ctor", "listener") or returns ("return"): for key
\* (a constructor) or with arg (a listener), by the library call at depth.
\* A key is given a new entry ("register", "rehook").
\* err is the error a function returns (Nil: none), old what a registration
\* replaces.
Event(ev, fn, key, arg, depth, err) ==
    [ev |-> ev, fn |-> fn, key |-> key, arg |-> arg, depth |-> depth, err |-> err,
     old |-> ""]

\* what slot key k points to, for the trace of a registration
Replaced(k) ==
    IF k \notin DOMAIN providers THEN "nothing"
    ELSE IF providers[k].configureFunc = "" THEN "provided"
    ELSE IF providers[k].configured THEN "configured" ELSE "unconfigured"

Registration(i) ==
    [Event("register", i.fn, tokens.slot[i.slot], i.val, Len(stack), Nil)
       EXCEPT !.old = Replaced(tokens.slot[i.slot])]

\* ------------------------------------------------------------ registration

\* (mutant) an entry of Provide that is left to be configured
ProvidedEntry_Unconfigured(i) == slotEntry(getTypeName(i.slot), "", FALSE, i.val)

\* the entry Provide stores: &slotEntry{typeName, configured: true, value}
ProvidedEntry(i) == slotEntry(getTypeName(i.slot), "", TRUE, i.val)

\* (mutant) an entry of ProvideFunc that keeps the state of the entry it
\* replaces
LazyEntry_KeepsValue(i) ==
    IF tokens.slot[i.slot] \in DOMAIN providers
    THEN [providers[tokens.slot[i.slot]] EXCEPT !.configureFunc = i.fn]
    ELSE slotEntry(getTypeName(i.slot), i.fn, FALSE, zero)

\* the entry ProvideFunc stores: &slotEntry{typeName, configureFunc,
\* configured: false}
LazyEntry(i) == slotEntry(getTypeName(i.slot), i.fn, FALSE, zero)

\* (mutant) calls in progress that follow the key to its new object
Detach_Follows(stk, k) == stk

\* The stack once key k points to a new object: a useSlotValue in progress
\* that looked the old object up keeps it.
Detach(stk, k) ==
    [n \in DOMAIN stk |->
        IF stk[n].kind = "use" /\ stk[n].key = k /\ stk[n].live
        THEN [stk[n] EXCEPT !.live = FALSE, !.obj = providers[k]]
        ELSE stk[n]]

\* Provide(l, slotKey, value): l.providers[slotKey] = a configured entry;
\* returns value.
Provide(i) ==
    /\ i.op = "Provide"
    /\ providers' = Put(providers, tokens.slot[i.slot], ProvidedEntry(i))
    /\ Returns(Deliver(Detach(stack, tokens.slot[i.slot]), i, Ok(i.val),
                       Append(trace, Registration(i))))
    /\ Counted
    /\ UNCHANGED <<tokens, hooks>>

\* ProvideFunc(l, slotKey, createFunc): l.providers[slotKey] = an
\* unconfigured entry.
ProvideFunc(i) ==
    /\ i.op = "ProvideFunc"
    /\ providers' = Put(providers, tokens.slot[i.slot], LazyEntry(i))
    /\ Returns(Deliver(Detach(stack, tokens.slot[i.slot]), i, Ok(zero),
                       Append(trace, Registration(i))))
    /\ Counted
    /\ UNCHANGED <<tokens, hooks>>

\* (mutant) ProvideHook that adds the listeners to those of the entry
ProvideHook_Appends(i) ==
    /\ i.op = "ProvideHook"
    /\ hooks' = Put(hooks, tokens.hook[i.hook],
                    hookEntry(getTypeName(i.hook),
                              (IF tokens.hook[i.hook] \in DOMAIN hooks
                               THEN hooks[tokens.hook[i.hook]].listeners ELSE <<>>)
                              \o i.ls))
    /\ Returns(Deliver(stack, i, Ok(zero),
                       Append(trace, Event("rehook", "", tokens.hook[i.hook], 0,
                                           Len(stack), Nil))))
    /\ Counted
    /\ UNCHANGED <<tokens, providers>>

\* (mutant) a ProvideHook that changes the listeners a running UseHook of
\* the key ranges over
ProvideHook_InPlace(i) ==
    /\ i.op = "ProvideHook"
    /\ hooks' = Put(hooks, tokens.hook[i.hook], hookEntry(getTypeName(i.hook), i.ls))
    /\ Returns(Deliver([n \in DOMAIN stack |->
                          IF stack[n].kind = "hook"
                             /\ tokens.hook[stack[n].call.hook] = tokens.hook[i.hook]
                          THEN [stack[n] EXCEPT !.ls = i.ls] ELSE stack[n]],
                       i, Ok(zero),
                       Append(trace, Event("rehook", "", tokens.hook[i.hook], 0,
                                           Len(stack), Nil))))
    /\ Counted
    /\ UNCHANGED <<tokens, providers>>

\* ProvideHook(l, hookKey, listeners...): l.hooks[hookKey] = a new
\* hookEntry with the listeners in the order given.
ProvideHook(i) ==
    /\ i.op = "ProvideHook"
    /\ hooks' = Put(hooks, tokens.hook[i.hook], hookEntry(getTypeName(i.hook), i.ls))
    /\ Returns(Deliver(stack, i, Ok(zero),
                       Append(trace, Event("rehook", "", tokens.hook[i.hook], 0,
                                           Len(stack), Nil))))
    /\ Counted
    /\ UNCHANGED <<tokens, providers>>

\* --------------------------------------------------------------- resolution

\* (mutant) a MustUse that returns the error
ApiResult_MustUseReturns(op, r) ==
    CASE op \in {"Use", "UseHook", "MustUse"} -> r
      [] op = "Invoke" -> IF r.kind = "err" THEN r
                          ELSE [kind |-> "ok", val |-> zero, err |-> Nil]
      [] op = "MustInvoke" -> IF r.kind = "err" THEN [r EXCEPT !.kind = "panic"]
                              ELSE [kind |-> "ok", val |-> zero, err |-> Nil]
      [] op = "MustUseHook" -> IF r.kind = "err" THEN [r EXCEPT !.kind = "panic"] ELSE r

\* (mutant) an Invoke that drops the error with the value
ApiResult_InvokeDropsError(op, r) ==
    CASE op \in {"Use", "UseHook"} -> r
      [] op = "Invoke" -> [kind |-> "ok", val |-> zero, err |-> Nil]
      [] op = "MustUse" -> IF r.kind = "err" THEN [r EXCEPT !.kind = "panic"] ELSE r
      [] op = "MustInvoke" -> IF r.kind = "err" THEN [r EXCEPT !.kind = "panic"]
                              ELSE [kind |-> "ok", val |-> zero, err |-> Nil]
      [] op = "MustUseHook" -> IF r.kind = "err" THEN [r EXCEPT !.kind = "panic"] ELSE r

\* What each entry point makes of a (value, error): Use and UseHook hand it
\* on, Invoke drops the value, the Must variants panic on an error.
ApiResult(op, r) ==
    CASE op \in {"Use", "UseHook"} -> r
      [] op = "Invoke" -> IF r.kind = "err" THEN r ELSE Ok(zero)
      [] op = "MustUse" -> IF r.kind = "err" THEN Panic(r.err) ELSE r
      [] op = "MustInvoke" -> IF r.kind = "err" THEN Panic(r.err) ELSE Ok(zero)
      [] op = "MustUseHook" -> IF r.kind = "err" THEN Panic(r.err) ELSE r

\* slot, ok := l.providers[slotKey]
Registered(i) == tokens.slot[i.slot] \in DOMAIN providers

EntryOf(i) == providers[tokens.slot[i.slot]]

\* the object the useSlotValue of frame u holds in slot
Slot(u) == IF u.live THEN providers[u.key] ELSE u.obj

\* (mutant) ensureConfigured without its test of s.configured
NeedsConfigure_Always(entry) == entry.configureFunc # ""

\* if !s.configured: whether ensureConfigured calls configureFunc
NeedsConfigure(entry) == ~entry.configured

\* (mutant) ensureConfigured that marks the entry configured also when
\* configureFunc returned an error
ensureConfigured_CachesFailure(entry, r) ==
    [entry EXCEPT !.configured = TRUE, !.value = r.val]

\* ensureConfigured after configureFunc has returned r: an error leaves the
\* entry as it is, a value is stored and the entry marked configured.
ensureConfigured(entry, r) ==
    IF r.kind = "err" THEN entry
    ELSE [entry EXCEPT !.configured = TRUE, !.value = r.val]

\* useSlotValue's result once ensureConfigured has returned err for entry
useSlotValue(entry, err) ==
    IF err # Nil THEN Err(err) ELSE Ok(entry.value)

\* whether two more frames (the library's and the user function's) fit
FramesFit == Len(stack) + 2 <= MaxDepth

\* (mutant) useSlotValue that leaves an empty entry behind for a key it
\* did not find
UseMissing_Registers(i) ==
    /\ i.op \in ResolveOps
    /\ ~(tokens.slot[i.slot] \in DOMAIN providers)
    /\ providers' = Put(providers, tokens.slot[i.slot], LazyEntry(i))
    /\ Returns(Deliver(stack, i, ApiResult(i.op, Err(NotRegistered(i.slot))), trace))
    /\ Counted
    /\ UNCHANGED <<tokens, hooks>>

\* useSlotValue on a slot key with no entry: the not-registered error.
UseMissing(i) ==
    /\ i.op \in ResolveOps
    /\ ~Registered(i)
    /\ Returns(Deliver(stack, i, ApiResult(i.op, Err(NotRegistered(i.slot))), trace))
    /\ Counted
    /\ UNCHANGED <<tokens, providers, hooks>>

\* useSlotValue on a configured entry: ensureConfigured does nothing and
\* the stored value is returned.
UseCached(i) ==
    /\ i.op \in ResolveOps
    /\ Registered(i)
    /\ ~NeedsConfigure(EntryOf(i))
    /\ Returns(Deliver(stack, i, ApiResult(i.op, useSlotValue(EntryOf(i), Nil)), trace))
    /\ Counted
    /\ UNCHANGED <<tokens, providers, hooks>>

\* useSlotValue on an unconfigured entry: ensureConfigured calls the
\* entry's configureFunc with the locator.
UseConfigure(i) ==
    /\ i.op \in ResolveOps
    /\ Registered(i)
    /\ NeedsConfigure(EntryOf(i))
    /\ FramesFit
    /\ LET k == tokens.slot[i.slot]
       IN  /\ stack' = stack \o <<UseFrame(i, k), FnFrame(providers[k].configureFunc, 0)>>
           /\ providers' = [providers EXCEPT ![k].calls = @ + 1]
           /\ trace' = Append(trace, Event("ctor", providers[k].configureFunc, k, 0,
                                           Len(stack) + 1, Nil))
    /\ Counted
    /\ UNCHANGED <<tokens, hooks, last>>

\* The results a function that has run to its end can return: the error it
\* got from a call, else its value or, when its own work can fail, its error.
Outcomes(frame) ==
    IF frame.err # Nil THEN {Err(frame.err)}
    ELSE {Ok(Base(frame.fn) + frame.acc)}
         \cup (IF CanFail(frame.fn) THEN {Err(FnError(frame.fn))} ELSE {})

Returning ==
    /\ Len(stack) >= 2
    /\ Top.kind = "fn"
    /\ Top.err # Nil \/ Top.pc > Len(Prog(Top.fn))

\* configureFunc returns: the rest of ensureConfigured, of useSlotValue
\* and of the entry point that called it.
CtorReturn ==
    /\ Returning
    /\ stack[Len(stack) - 1].kind = "use"
    /\ \E r \in Outcomes(Top) :
         LET use == stack[Len(stack) - 1]
             entry == ensureConfigured(Slot(use), r)
         IN  /\ providers' = IF use.live
                             THEN [providers EXCEPT ![use.key] = entry]
                             ELSE providers
             /\ Returns(Deliver(SubSeq(stack, 1, Len(stack) - 2), use.call,
                                ApiResult(use.call.op, useSlotValue(entry, r.err)),
                                Append(trace, Event("return", Top.fn, use.key, 0,
                                                    Len(stack) - 1, r.err))))
    /\ UNCHANGED <<tokens, hooks, ncalls>>

\* -------------------------------------------------------------------- hooks

\* hookEntry, ok := l.hooks[hookKey]
HookRegistered(i) == tokens.hook[i.hook] \in DOMAIN hooks

\* (mutant) a loop over the listeners from the last to the first
ListenerAt_Reversed(ls, idx) == ls[Len(ls) + 1 - idx]

\* the listener UseHook's range loop calls in its iteration idx
ListenerAt(ls, idx) == ls[idx]

\* UseHook on a hook key with no entry: hookEntry is nil, and building the
\* error message reads hookEntry.typeName.
UseHookMissing(i) ==
    /\ i.op \in DispatchOps
    /\ ~HookRegistered(i)
    /\ Returns(Deliver(stack, i, Panic(NilDeref), trace))
    /\ Counted
    /\ UNCHANGED <<tokens, providers, hooks>>

\* UseHook on a registered hook: ranges over the entry's listeners as they
\* are now, and calls the first with the locator and the value.
UseHookStart(i) ==
    /\ i.op \in DispatchOps
    /\ HookRegistered(i)
    /\ LET ls == hooks[tokens.hook[i.hook]].listeners
       IN  IF ls = <<>>
           THEN Returns(Deliver(stack, i, ApiResult(i.op, Ok(zero)), trace))
           ELSE /\ FramesFit
                /\ stack' = stack \o <<HookFrame(i, ls, 1),
                                       FnFrame(ListenerAt(ls, 1), i.val)>>
                /\ trace' = Append(trace, Event("listener", ListenerAt(ls, 1), NoKey,
                                                i.val, Len(stack) + 1, Nil))
                /\ last' = last
    /\ Counted
    /\ UNCHANGED <<tokens, providers, hooks>>

\* (mutant) a loop that does not return on a listener's error
LoopGoesOn_IgnoresError(r, hk) == hk.idx < Len(hk.ls)

\* for _, hookFunc := range hookEntry.listeners { if err != nil { return err } }:
\* whether the loop calls another listener once one has returned r
LoopGoesOn(r, hk) == r.kind = "ok" /\ hk.idx < Len(hk.ls)

\* A listener returns: on an error UseHook returns it, else the loop goes
\* on to the next listener, and UseHook returns nil after the last.
ListenerReturn ==
    /\ Returning
    /\ stack[Len(stack) - 1].kind = "hook"
    /\ \E r \in Outcomes(Top) :
         LET hk == stack[Len(stack) - 1]
             below == SubSeq(stack, 1, Len(stack) - 2)
             ret == Event("return", Top.fn, NoKey, hk.arg, Len(stack) - 1, r.err)
         IN  IF LoopGoesOn(r, hk)
             THEN /\ stack' = below \o <<[hk EXCEPT !.idx = @ + 1],
                                          FnFrame(ListenerAt(hk.ls, hk.idx + 1), hk.arg)>>
                  /\ trace' = trace \o <<ret,
                          Event("listener", ListenerAt(hk.ls, hk.idx + 1), NoKey,
                                hk.arg, Len(stack) - 1, Nil)>>
                  /\ last' = last
             ELSE Returns(Deliver(below, hk.call,
                                  ApiResult(hk.call.op,
                                            IF r.kind = "err" THEN Err(r.err)
                                            ELSE Ok(zero)),
                                  Append(trace, ret)))
    /\ UNCHANGED <<tokens, providers, hooks, ncalls>>

\* whether call i has to call user code
CallsUserCode(i) ==
    IF i.op \in ResolveOps
    THEN Registered(i) /\ NeedsConfigure(EntryOf(i))
    ELSE i.op \in DispatchOps /\ HookRegistered(i)
         /\ hooks[tokens.hook[i.hook]].listeners # <<>>

\* (mutant) a locator that finds the nesting too deep and returns an error
StackOverflow_ReturnsError(i) ==
    /\ CallsUserCode(i)
    /\ ~FramesFit
    /\ Returns(Deliver(stack, i, ApiResult(i.op, Err(StackOverflowError)), trace))
    /\ UNCHANGED <<tokens, providers, hooks, ncalls>>

\* The nesting is deeper than the stack: the runtime ends the process.
StackOverflow(i) ==
    /\ CallsUserCode(i)
    /\ ~FramesFit
    /\ Returns(Deliver(stack, i, Fatal(StackOverflowError), trace))
    /\ UNCHANGED <<tokens, providers, hooks, ncalls>>

\* ------------------------------------------------------------ specification

Next ==
    \/ \E i \in NextCalls : Provide(i)
    \/ \E i \in NextCalls : ProvideFunc(i)
    \/ \E i \in NextCalls : ProvideHook(i)
    \/ \E i \in NextCalls : UseMissing(i)
    \/ \E i \in NextCalls : UseCached(i)
    \/ \E i \in NextCalls : UseConfigure(i)
    \/ \E i \in NextCalls : UseHookMissing(i)
    \/ \E i \in NextCalls : UseHookStart(i)
    \/ \E i \in NextCalls : StackOverflow(i)
    \/ CtorReturn
    \/ ListenerReturn

Spec == Init /\ [][Next]_vars

\* The library starts no goroutine and waits for nothing: every call runs
\* in its caller's goroutine until it returns, so a step that can be taken
\* is taken.
FairSpec == Spec /\ WF_vars(Next)

\* ---------------------------------------------------------------- properties

SlotKey(s) == tokens.slot[s]

HookKey(h) == tokens.hook[h]

\* this step ends a call of the composition root
Completes == stack' = <<>> /\ (stack # <<>> \/ ncalls' # ncalls)

\* in this step the composition root calls i
RootCallMade(i) ==
    /\ stack = <<>>
    /\ ncalls' = ncalls + 1
    /\ i = IF stack' = <<>> THEN last'.call ELSE stack'[1].call

\* in this step the running code (the root, or the function on top of the
\* stack) calls i
CallMade(i) == IF stack = <<>> THEN RootCallMade(i) ELSE NextCalls = {i}

\* what the root's call has invoked, after this step
TraceAfter == IF stack' = <<>> THEN last'.trace ELSE trace'

\* the places of the events ev of key k in trace tr
Events(tr, ev, k) == {n \in DOMAIN tr : tr[n].ev = ev /\ tr[n].key = k}

\* the slot of key k was registered by ProvideFunc
Lazy(k) == k \in DOMAIN providers /\ providers[k].configureFunc # ""

C2_AtMostOnce ==
    \A k \in DOMAIN providers : providers[k].calls <= 1

\* C2 (amended).  A constructor is invoked only while its entry is
\* unconfigured: once an invocation has returned a value and the entry is
\* configured, the entry stays as it is (no further invocation, the same
\* value) until a registration puts a new entry under its key.
C2_NotInvokedOnceConfigured ==
    [][\A k \in DOMAIN providers :
         (providers[k].configured /\ providers[k].calls > 0)
         => \/ providers'[k] = providers[k]
            \/ providers'[k].calls = 0]_vars

\* The constructor "config" failed at its first invocation and returned a
\* value at its second: Use(ConfigSlot) has returned that value.
C2_Witness ==
    /\ stack = <<>>
    /\ last.call = IResolve("Use", "ConfigSlot")
    /\ last.res = Ok(1)
    /\ Lazy(SlotKey("ConfigSlot"))
    /\ providers[SlotKey("ConfigSlot")].configureFunc = "config"
    /\ providers[SlotKey("ConfigSlot")].configured
    /\ providers[SlotKey("ConfigSlot")].calls = 2

\* C3 (constructor failure is not cached).  When the constructor of a slot
\* returns an error e to a Use (of the root or of user code), Use returns
\* zero and e itself, and the slot's entry is as before: unconfigured, no
\* value stored.  When the root then calls Use on the slot again (the
\* failed call did not register the slot anew), the entry's constructor is
\* invoked again.
C3_FailureNotCached ==
    [][/\ ( /\ Len(stack) >= 2
            /\ Top.kind = "fn"
            /\ stack[Len(stack) - 1].kind = "use"
            /\ stack[Len(stack) - 1].live
            /\ Len(TraceAfter) = Len(trace) + 1
            /\ TraceAfter[Len(TraceAfter)].err # Nil )
          => LET use == stack[Len(stack) - 1]
                 e == TraceAfter[Len(TraceAfter)].err
             IN  /\ providers'[use.key] = providers[use.key]
                 /\ ~providers'[use.key].configured
                 /\ providers'[use.key].value = zero
                 /\ use.call.op = "Use"
                    => IF Len(stack) = 2
                       THEN stack' = <<>> /\ last'.call = use.call
                            /\ last'.res = [kind |-> "err", val |-> zero, err |-> e]
                       ELSE /\ Len(stack') = Len(stack) - 2
                            /\ stack'[Len(stack')].err = e
       /\ \A s \in SlotNames :
            ( /\ RootCallMade(IResolve("Use", s))
              /\ last.call = IResolve("Use", s)
              /\ last.res.kind = "err"
              /\ last.trace # <<>>
              /\ last.trace[Len(last.trace)].ev = "return"
              /\ last.trace[Len(last.trace)].key = SlotKey(s)
              /\ last.trace[Len(last.trace)].depth = 1
              /\ Events(last.trace, "register", SlotKey(s)) = {} )
            => /\ Len(stack') = 2
               /\ stack'[2].kind = "fn"
               /\ stack'[2].fn = last.trace[Len(last.trace)].fn
               /\ stack'[2].pc = 1
               /\ providers'[SlotKey(s)].calls = providers[SlotKey(s)].calls + 1
               /\ trace' = <<Event("ctor", stack'[2].fn, SlotKey(s), 0, 1, Nil)>>]_vars

\* Use(ConfigSlot) returned the error of the constructor "config", and the
\* Use(ConfigSlot) after it is running that constructor again.
C3_Witness ==
    /\ Len(stack) = 2
    /\ stack[1].call = IResolve("Use", "ConfigSlot")
    /\ stack[2].fn = "config"
    /\ last.call = IResolve("Use", "ConfigSlot")
    /\ last.res = Err(FnError("config"))
    /\ ~providers[SlotKey("ConfigSlot")].configured
    /\ providers[SlotKey("ConfigSlot")].calls = 2

\* C4 (missing slot).  Use or Invoke of a slot key that has no entry,
\* called by the root or by user code, returns the not-registered error of
\* the slot's type (Use: with the zero value) to its caller, calls no
\* function, and leaves both maps of the locator as they are.
C4_MissingSlot ==
    [][\A op \in {"Use", "Invoke"}, s \in SlotNames :
         (CallMade(IResolve(op, s)) /\ SlotKey(s) \notin DOMAIN providers)
         => LET e == [kind |-> "no injected value for type", of |-> getTypeName(s)]
            IN  /\ providers' = providers
                /\ hooks' = hooks
                /\ IF stack = <<>>
                   THEN /\ stack' = <<>>
                        /\ last' = [call |-> IResolve(op, s), trace |-> <<>>,
                                     res |-> [kind |-> "err", val |-> 0, err |-> e]]
                   ELSE /\ stack' = [stack EXCEPT ![Len(stack)].err = e]
                        /\ trace' = trace
                        /\ last' = last]_vars

\* Use(LoggerSlot) has returned the not-registered error in a locator that
\* holds a slot entry (not of LoggerSlot) and a hook entry.
C4_Witness ==
    /\ stack = <<>>
    /\ last.call = IResolve("Use", "LoggerSlot")
    /\ last.res = Err(NotRegistered("LoggerSlot"))
    /\ DOMAIN providers = {SlotKey("ConfigSlot")}
    /\ DOMAIN hooks # {}

\* The constructor "loader" has got the not-registered error from its
\* Use(LoggerSlot).
C4_WitnessNested ==
    /\ Len(stack) = 2
    /\ Top.fn = "loader"
    /\ Top.err = NotRegistered("LoggerSlot")

\* C5 as claimed: UseHook on a hook key that has no entry returns a
\* hook-not-registered error to its caller and does not panic.
C5_UseHookMissingReturnsError ==
    ( /\ stack = <<>>
      /\ last.call.op = "UseHook"
      /\ HookKey(last.call.hook) \notin DOMAIN hooks )
    => /\ last.res.kind = "err"
       /\ last.res.err.kind = "no injected hooks for hook of type"

\* the listener calls, in order, that the root's own UseHook made in tr
Dispatched(tr) ==
    LET Own(e) == e.ev = "listener" /\ e.depth = 1
        evs == SelectSeq(tr, Own)
    IN  [n \in DOMAIN evs |-> evs[n].fn]

\* the errors the listeners of the root's own UseHook returned in tr
ListenerErrors(tr) ==
    {tr[n].err : n \in {m \in DOMAIN tr : tr[m].ev = "return" /\ tr[m].depth = 1
                                          /\ tr[m].key = NoKey /\ tr[m].err # Nil}}

\* the payloads the listeners of the root's own UseHook were called with
Payloads(tr) ==
    {tr[n].arg : n \in {m \in DOMAIN tr : tr[m].ev = "listener" /\ tr[m].depth = 1}}

\* C6 (hook ordering).  UseHook (or MustUseHook) ranges over the listeners
\* the hook's entry has when it is called.  When the root's call ends and
\* no listener of it returned an error, the listeners it called are those
\* of the entry, each once, in the order of the registration, each with the
\* payload of the call, and the call returns no error; with no listeners
\* it returns no error at once.
C6_HookOrdering ==
    [][\A op \in DispatchOps, h \in HookNames :
         LET i == IDispatch(op, h, 7)
             k == HookKey(h)
         IN  /\ (CallMade(i) /\ k \in DOMAIN hooks /\ Len(stack') > Len(stack))
                => /\ stack'[Len(stack) + 1].ls = hooks[k].listeners
                   /\ stack'[Len(stack) + 1].arg = 7
                   /\ hooks[k].listeners # <<>>
             /\ (RootCallMade(i) /\ k \in DOMAIN hooks /\ hooks[k].listeners = <<>>)
                => /\ stack' = <<>>
                   /\ last' = [call |-> i, res |-> Ok(0), trace |-> <<>>]
             /\ ( /\ Completes
                  /\ stack # <<>>
                  /\ stack[1].call = i
                  /\ last'.res.kind \notin {"panic", "fatal"}
                  /\ ListenerErrors(last'.trace) = {} )
                => /\ Dispatched(last'.trace) = stack[1].ls
                   /\ Payloads(last'.trace) = {7}
                   /\ last'.call = i
                   /\ last'.res = Ok(0)]_vars

\* UseHook(RoutesHook, 7) has called "mount" and then "deny", as
\* registered, and both succeeded.
C6_Witness ==
    /\ stack = <<>>
    /\ last.call = IDispatch("UseHook", "RoutesHook", 7)
    /\ last.res = Ok(0)
    /\ HookKey("RoutesHook") \in DOMAIN hooks
    /\ hooks[HookKey("RoutesHook")].listeners = <<"mount", "deny">>
    /\ Dispatched(last.trace) = <<"mount", "deny">>

\* C7 (hook short-circuit).  When a listener of the root's UseHook returns
\* an error e, UseHook returns at once: the listeners called are the first
\* k of the entry, each once and in order, the failing one is the last of
\* them and the only one that failed, UseHook returns e itself (MustUseHook
\* panics with e), and the return undoes nothing: both maps are as the
\* listeners left them, so the entry a "mount" before the failing listener
\* provided is there.
C7_HookShortCircuit ==
    [][\A op \in DispatchOps, h \in HookNames :
         LET i == IDispatch(op, h, 7)
             tr == last'.trace
             n == Len(Dispatched(tr))
         IN  ( /\ Completes
               /\ stack # <<>>
               /\ stack[1].call = i
               /\ ListenerErrors(tr) # {} )
             => /\ Dispatched(tr) = SubSeq(stack[1].ls, 1, n)
                /\ tr[Len(tr)].ev = "return"
                /\ tr[Len(tr)].depth = 1
                /\ tr[Len(tr)].fn = stack[1].ls[n]
                /\ ListenerErrors(tr) = {tr[Len(tr)].err}
                /\ Cardinality({m \in DOMAIN tr : tr[m].ev = "return" /\ tr[m].depth = 1
                                                  /\ tr[m].err # Nil}) = 1
                /\ last'.call = i
                /\ last'.res = IF op = "UseHook"
                               THEN [kind |-> "err", val |-> 0, err |-> tr[Len(tr)].err]
                               ELSE [kind |-> "panic", val |-> 0, err |-> tr[Len(tr)].err]
                /\ providers' = providers
                /\ hooks' = hooks
                /\ (\E m \in 1..(n - 1) : stack[1].ls[m] = "mount")
                   => /\ SlotKey("AltConfigSlot") \in DOMAIN providers'
                      /\ providers'[SlotKey("AltConfigSlot")].configured
                      /\ providers'[SlotKey("AltConfigSlot")].value = 7]_vars

\* UseHook(RoutesHook, 7) has returned the error of "deny", the second of
\* its two listeners; the entry "mount" provided before is in the map.
C7_Witness ==
    /\ stack = <<>>
    /\ last.call = IDispatch("UseHook", "RoutesHook", 7)
    /\ last.res = Err(FnError("deny"))
    /\ Dispatched(last.trace) = <<"mount", "deny">>
    /\ SlotKey("AltConfigSlot") \in DOMAIN providers
    /\ providers[SlotKey("AltConfigSlot")].value = 7

\* C8 (hook re-registration replaces).  ProvideHook leaves under the hook's
\* key exactly the listeners of this call, in its order, whatever the key
\* had before, and touches no other key; nothing but ProvideHook changes
\* the hooks.  So when the root's UseHook follows its ProvideHook on the
\* same hook, the listeners called are the first of that ProvideHook's
\* list, in its order (all of them when none returns an error).
C8_HookReplaces ==
    [][/\ \A i \in NextCalls :
            (i.op = "ProvideHook" /\ CallMade(i))
            => /\ HookKey(i.hook) \in DOMAIN hooks'
               /\ hooks'[HookKey(i.hook)].listeners = i.ls
               /\ \A k \in DOMAIN hooks \ {HookKey(i.hook)} :
                    k \in DOMAIN hooks' /\ hooks'[k] = hooks[k]
               /\ providers' = providers
       /\ hooks' # hooks
          => \E i \in NextCalls : i.op = "ProvideHook" /\ CallMade(i)
       /\ \A op \in DispatchOps, h \in HookNames :
            ( /\ Completes
              /\ last.call.op = "ProvideHook"
              /\ last.call.hook = h
              /\ last.res.kind = "ok"
              /\ last'.call = IDispatch(op, h, 7)
              /\ IF stack = <<>> THEN RootCallMade(last'.call)
                                 ELSE stack[1].call = last'.call )
            => LET called == Dispatched(last'.trace)
               IN  /\ called = SubSeq(last.call.ls, 1, Len(called))
                   /\ ListenerErrors(last'.trace) = {}
                      => \/ called = last.call.ls
                         \/ last'.res.kind \in {"panic", "fatal"}]_vars

\* RoutesHook was registered with <<"rehook", "mount">>, a dispatch ran
\* "rehook", which registered it again with <<"deny">>, and the next
\* UseHook called "deny" and nothing else.
C8_Witness ==
    /\ stack = <<>>
    /\ last.call = IDispatch("UseHook", "RoutesHook", 7)
    /\ HookKey("RoutesHook") \in DOMAIN hooks
    /\ hooks[HookKey("RoutesHook")].listeners = <<"deny">>
    /\ Dispatched(last.trace) = <<"deny">>

\* C9 (eager registration).  Provide(l, slot, v) returns v to its caller
\* and leaves under the slot's key a configured entry with value v and no
\* constructor, whatever the key had before (nothing, a provided value, a
\* lazy entry configured or not), touching no other key.  When the root's
\* Use of the slot follows its Provide, Use returns v at once and invokes
\* no function.
C9_EagerRegistration ==
    [][/\ \A i \in NextCalls :
            (i.op = "Provide" /\ CallMade(i))
            => LET k == SlotKey(i.slot)
               IN  /\ k \in DOMAIN providers'
                   /\ providers'[k].configured
                   /\ providers'[k].value = i.val
                   /\ providers'[k].configureFunc = ""
                   /\ providers'[k].calls = 0
                   /\ \A j \in DOMAIN providers \ {k} :
                        j \in DOMAIN providers' /\ providers'[j] = providers[j]
                   /\ hooks' = hooks
                   /\ IF stack = <<>>
                      THEN stack' = <<>> /\ last'.call = i /\ last'.res = Ok(i.val)
                      ELSE /\ Len(stack') = Len(stack)
                           /\ stack'[Len(stack)].pc = Top.pc + 1
                           /\ stack'[Len(stack)].err = Nil
       /\ \A s \in SlotNames, op \in ResolveOps :
            (last.call.op = "Provide" /\ last.call.slot = s
               /\ RootCallMade(IResolve(op, s)))
            => /\ stack' = <<>>
               /\ last'.call = IResolve(op, s)
               /\ last'.res = IF op \in {"Invoke", "MustInvoke"}
                              THEN Ok(zero) ELSE Ok(last.call.val)
               /\ last'.trace = <<>>
               /\ providers' = providers]_vars

\* The root's Provide(ConfigSlot, 5) has replaced a lazy entry whose
\* constructor had not run, and returned 5.
C9_Witness ==
    /\ stack = <<>>
    /\ last.call = IProvide("ConfigSlot", 5)
    /\ last.res = Ok(5)
    /\ Len(last.trace) = 1
    /\ last.trace[1].old = "unconfigured"
    /\ SlotKey("ConfigSlot") \in DOMAIN providers
    /\ providers[SlotKey("ConfigSlot")].configured
    /\ providers[SlotKey("ConfigSlot")].value = 5

\* The root's Use of ConfigSlot right after that Provide has returned 5 and
\* invoked nothing.
C9_WitnessUse ==
    /\ stack = <<>>
    /\ last.call = IResolve("Use", "ConfigSlot")
    /\ last.res = Ok(5)
    /\ last.trace = <<>>
    /\ SlotKey("ConfigSlot") \in DOMAIN providers
    /\ providers[SlotKey("ConfigSlot")].calls = 0
    /\ providers[SlotKey("ConfigSlot")].configureFunc = ""

\* the constructor f does nothing but resolve slots
ResolveOnly(f) == \A n \in DOMAIN Prog(f) : Prog(f)[n].op \in {"Use", "MustUse"}

\* the keys of the slots the constructor f resolves
Deps(f) == {SlotKey(Prog(f)[n].slot) : n \in DOMAIN Prog(f)}

\* the keys that resolving key k has yet to resolve: those of its
\* constructor, when k has an entry that is not configured
Needs(k) ==
    IF k \in DOMAIN providers /\ ~providers[k].configured
    THEN Deps(providers[k].configureFunc) ELSE {}

RECURSIVE Reach(_, _)
\* the keys reached from those of S in at most n steps of Needs
Reach(S, n) == IF n = 0 THEN S ELSE Reach(S \cup UNION {Needs(k) : k \in S}, n - 1)

\* the dependency graph of key k
Graph(k) == Reach({k}, Cardinality(SlotNames))

\* The graph of key k is acyclic, all its slots are registered and its
\* constructors only resolve slots.
AcyclicGraph(k) ==
    \A j \in Graph(k) :
        /\ j \in DOMAIN providers
        /\ j \notin Reach(Needs(j), Cardinality(SlotNames))
        /\ ~providers[j].configured => ResolveOnly(providers[j].configureFunc)

\* The root's resolution of slot s has just called the constructor of s: the
\* entries are those the call found.
JustStarted(s) ==
    /\ Len(stack) = 2
    /\ stack[1].kind = "use"
    /\ stack[1].call.slot = s
    /\ stack[2].pc = 1
    /\ Len(trace) = 1

\* every function called in tr is a constructor, and each one that returned
\* returned a value
AllSucceed(tr) == \A n \in DOMAIN tr : tr[n].ev \in {"ctor", "return"} /\ tr[n].err = Nil

RECURSIVE Sum(_, _, _)
\* the sum of the values that the first n calls of constructor f get from
\* the entries reg
Sum(f, n, reg) ==
    IF n = 0 THEN 0
    ELSE Sum(f, n - 1, reg) + reg[tokens.slot[Prog(f)[n].slot]].value

\* C10 (dependency chain).  When the root resolves a slot whose dependency
\* graph is acyclic, with every slot of it registered and constructors that
\* only resolve slots, the call ends and not by a stack overflow.  When it
\* ends and every constructor returned a value: each constructor called
\* was called once and returned once, the root slot's first and at depth 1;
\* each slot a called constructor resolves is configured, and when it was
\* constructed in this call, it was once, returning before that constructor
\* returned (so Config, which Logger and Service both resolve, is
\* constructed once); the value of each constructed slot is its
\* constructor's own part plus the values of the slots it resolves; the
\* call returns the root slot's value.  A Use of the same slot by the root
\* right after returns that value again and invokes nothing.
C10_DependencyChain ==
    /\ (\E s \in SlotNames : JustStarted(s) /\ AcyclicGraph(SlotKey(s)))
       ~> (stack = <<>> /\ last.res.kind # "fatal")
    /\ [][\A s \in SlotNames, op \in ResolveOps :
           LET i == IResolve(op, s)
               tr == last'.trace
               Ctors == {n \in DOMAIN tr : tr[n].ev = "ctor"}
               Rets(k) == Events(tr, "return", k)
           IN  /\ ( /\ Completes
                    /\ stack # <<>>
                    /\ stack[1].call = i
                    /\ AcyclicGraph(SlotKey(s))
                    /\ AllSucceed(tr) )
                  => /\ last'.call = i
                     /\ tr[1].ev = "ctor" /\ tr[1].key = SlotKey(s) /\ tr[1].depth = 1
                     /\ tr[Len(tr)].ev = "return" /\ tr[Len(tr)].key = SlotKey(s)
                     /\ \A n \in Ctors :
                          LET k == tr[n].key
                              f == tr[n].fn
                          IN  /\ Events(tr, "ctor", k) = {n}
                              /\ Cardinality(Rets(k)) = 1
                              /\ \A m \in Rets(k) : m > n /\ tr[m].fn = f
                              /\ ResolveOnly(f)
                              /\ \A d \in Deps(f) :
                                   /\ d \in DOMAIN providers'
                                   /\ providers'[d].configured
                                   /\ Cardinality(Events(tr, "ctor", d)) <= 1
                                   /\ \A c \in Events(tr, "ctor", d) :
                                        \E r \in Rets(d) :
                                          c < r /\ \A m \in Rets(k) : r < m
                              /\ providers'[k].configured
                              /\ providers'[k].value
                                   = Base(f) + Sum(f, Len(Prog(f)), providers')
                     /\ last'.res = ApiResult(op, Ok(providers'[SlotKey(s)].value))
                     /\ providers'[SlotKey(s)].value
                          = Base(tr[1].fn) + Sum(tr[1].fn, Len(Prog(tr[1].fn)), providers')
               /\ ( /\ RootCallMade(IResolve("Use", s))
                    /\ last.call = i
                    /\ last.res.kind = "ok"
                    /\ last.trace # <<>>
                    /\ AllSucceed(last.trace) )
                  => /\ stack' = <<>>
                     /\ last'.trace = <<>>
                     /\ last'.res = Ok(providers[SlotKey(s)].value)
                     /\ op = "Use" => last'.res = last.res
                     /\ providers' = providers]_vars

\* Use(ExampleServiceSlot) has constructed Config, Logger (from Config) and
\* the service (from both), each once, and returned 20 + 1 + (10 + 1).
C10_Witness ==
    /\ stack = <<>>
    /\ last.call = IResolve("Use", "ExampleServiceSlot")
    /\ last.res = Ok(32)
    /\ [n \in DOMAIN last.trace |-> <<last.trace[n].ev, last.trace[n].fn>>]
         = << <<"ctor", "service">>, <<"ctor", "config">>, <<"return", "config">>,
              <<"ctor", "logger">>, <<"return", "logger">>, <<"return", "service">> >>

\* A second Use(ExampleServiceSlot) has returned the cached 32 and invoked
\* nothing.
C10_WitnessCached ==
    /\ stack = <<>>
    /\ ncalls = 5
    /\ last.call = IResolve("Use", "ExampleServiceSlot")
    /\ last.res = Ok(32)
    /\ last.trace = <<>>
    /\ \A s \in {"ConfigSlot", "LoggerSlot", "ExampleServiceSlot"} :
         SlotKey(s) \in DOMAIN providers /\ providers[SlotKey(s)].calls = 1

\* C11 as claimed: the tokens of two NewSlot (or two NewHook) calls are
\* never equal, also when they have the same type parameter, so after one
\* registration by the root, under slot s, no other slot has an entry.
C11_TokenIdentity ==
    /\ \A a, b \in SlotNames : a # b => SlotKey(a) # SlotKey(b)
    /\ \A a, b \in HookNames : a # b => HookKey(a) # HookKey(b)
    /\ ( /\ stack = <<>>
         /\ ncalls = 1
         /\ last.call.op \in {"Provide", "ProvideFunc"} )
       => \A t \in SlotNames \ {last.call.slot} : SlotKey(t) \notin DOMAIN providers

\* C12 (ProvideFunc is lazy and resets).  ProvideFunc invokes nothing: it
\* leaves under the slot's key an unconfigured entry with the constructor
\* given and no value, whatever the key had before, and touches no other
\* key.  When the root's resolution of the slot follows its ProvideFunc,
\* it invokes the constructor given, and when that returns a value (no
\* panic, nothing registered meanwhile), the resolution returns that value,
\* which is the one now stored.  A constructor is invoked only by a Use, MustUse, Invoke
\* or MustInvoke of the key whose entry holds it.
C12_ProvideFuncLazy ==
    [][/\ \A i \in NextCalls :
            (i.op = "ProvideFunc" /\ CallMade(i))
            => LET k == SlotKey(i.slot)
               IN  /\ k \in DOMAIN providers'
                   /\ providers'[k] = slotEntry(getTypeName(i.slot), i.fn, FALSE, zero)
                   /\ \A j \in DOMAIN providers \ {k} :
                        j \in DOMAIN providers' /\ providers'[j] = providers[j]
                   /\ hooks' = hooks
                   /\ Len(stack') <= Len(stack)
                   /\ TraceAfter = Append(trace, Registration(i))
       /\ \A s \in SlotNames, op \in ResolveOps :
            LET i == IResolve(op, s)
                k == SlotKey(s)
                tr == last'.trace
            IN  /\ (last.call.op = "ProvideFunc" /\ last.call.slot = s
                       /\ RootCallMade(i))
                   => /\ Len(stack') = 2
                      /\ stack'[2].fn = last.call.fn
                      /\ trace' = <<Event("ctor", last.call.fn, k, 0, 1, Nil)>>
                /\ ( /\ Completes
                     /\ stack # <<>>
                     /\ stack[1].call = i
                     /\ last.call.op = "ProvideFunc"
                     /\ last.call.slot = s
                     /\ last'.res.kind \notin {"panic", "fatal"}
                     /\ AllSucceed(tr) )
                   => /\ tr[1].fn = last.call.fn
                      /\ tr[Len(tr)].ev = "return"
                      /\ tr[Len(tr)].fn = last.call.fn
                      /\ tr[Len(tr)].key = k
                      /\ providers'[k].configured
                      /\ providers'[k].configureFunc = last.call.fn
                      /\ last'.res = ApiResult(op, Ok(providers'[k].value))
       /\ \A n \in (Len(trace) + 1)..Len(TraceAfter) :
            TraceAfter[n].ev = "ctor"
            => \E i \in NextCalls :
                 /\ i.op \in ResolveOps
                 /\ CallMade(i)
                 /\ TraceAfter[n].key = SlotKey(i.slot)
                 /\ SlotKey(i.slot) \in DOMAIN providers
                 /\ TraceAfter[n].fn = providers[SlotKey(i.slot)].configureFunc]_vars

\* The root's ProvideFunc(ConfigSlot, "config") has replaced a lazy entry
\* that was configured by an unconfigured one.
C12_Witness ==
    /\ stack = <<>>
    /\ last.call = IProvideFunc("ConfigSlot", "config")
    /\ Len(last.trace) = 1
    /\ last.trace[1].old = "configured"
    /\ SlotKey("ConfigSlot") \in DOMAIN providers
    /\ ~providers[SlotKey("ConfigSlot")].configured
    /\ providers[SlotKey("ConfigSlot")].calls = 0

\* After Provide(ConfigSlot, 5) and ProvideFunc(ConfigSlot, "config"), Use
\* has invoked "config" and returned its 1, not the 5.
C12_WitnessReset ==
    /\ stack = <<>>
    /\ ncalls = 3
    /\ last.call = IResolve("Use", "ConfigSlot")
    /\ last.res = Ok(1)
    /\ Len(last.trace) = 2
    /\ last.trace[1].fn = "config"
    /\ DOMAIN providers = {SlotKey("ConfigSlot")}
    /\ providers[SlotKey("ConfigSlot")].calls = 1

\* Key k is on a cycle of the dependency graph: resolving it leads to
\* resolving it again, every slot on the way is registered, and the
\* constructors yet to run only resolve slots.
OnCycle(k) ==
    /\ k \in Reach(Needs(k), Cardinality(SlotNames))
    /\ \A j \in Graph(k) :
         /\ j \in DOMAIN providers
         /\ ~providers[j].configured => ResolveOnly(providers[j].configureFunc)

\* C13 (no cycle detection).  While the root resolves a slot A that is on a
\* cycle, every step either nests deeper (a constructor is called, none
\* returns, no entry of the graph becomes configured, A is still on the
\* cycle) or is the end of the process by stack overflow, with the stack
\* full, A's constructor entered more than once and the entries as they
\* were: the call returns neither a value nor an error.
C13_NoCycleDetection ==
    [][( /\ stack # <<>>
         /\ stack[1].kind = "use"
         /\ OnCycle(stack[1].key) )
       => LET k == stack[1].key
          IN  \/ /\ stack' # <<>>
                 /\ Len(stack') >= Len(stack)
                 /\ OnCycle(k)'
                 /\ \A n \in DOMAIN trace' : trace'[n].ev = "ctor"
                 /\ \A j \in DOMAIN providers' : providers'[j].configured
                                                     = providers[j].configured
                 /\ last' = last
              \/ /\ stack' = <<>>
                 /\ ~FramesFit
                 /\ last'.call = stack[1].call
                 /\ last'.res = Fatal(StackOverflowError)
                 /\ \A n \in DOMAIN last'.trace : last'.trace[n].ev = "ctor"
                 /\ Cardinality(Events(last'.trace, "ctor", k)) >= 2
                 /\ providers' = providers
                 /\ \A j \in Graph(k) : Needs(j) # {} => ~providers'[j].configured]_vars

\* Use(ConfigSlot), with the constructor of ConfigSlot resolving LoggerSlot
\* and that of LoggerSlot resolving ConfigSlot, has ended in a stack
\* overflow after entering the constructor of ConfigSlot twice.
C13_Witness ==
    /\ stack = <<>>
    /\ last.call = IResolve("Use", "ConfigSlot")
    /\ last.res = Fatal(StackOverflowError)
    /\ Cardinality(Events(last.trace, "ctor", SlotKey("ConfigSlot"))) >= 2
    /\ \A k \in DOMAIN providers : ~providers[k].configured

\* what Use hands back for the (value, error) r of useSlotValue, and what
\* Invoke does: the same error, and no value
Handed(op, r) == IF op = "Use" THEN r ELSE [r EXCEPT !.val = zero]

\* C14 (Invoke is Use without the value).  The same description holds of
\* the root's Use and of its Invoke of a slot, the operation deciding only
\* whether the value is handed back.  Called on a key with no entry, both
\* return the not-registered error at once; on a configured entry, both
\* return no error at once (Use with the value); neither changes anything.
\* On an unconfigured entry both call its constructor, with the same
\* arguments.  When that constructor returns, both return its error as it
\* is and leave the maps alone, or return no error (Use with the value
\* built) and store the value in the entry looked up; neither panics by
\* itself.
C14_InvokeAsUse ==
    [][\A s \in SlotNames, op \in {"Use", "Invoke"} :
         LET i == IResolve(op, s)
             k == SlotKey(s)
         IN  /\ RootCallMade(i)
                => /\ hooks' = hooks
                   /\ IF k \notin DOMAIN providers
                      THEN /\ stack' = <<>>
                           /\ providers' = providers
                           /\ last' = [call |-> i, trace |-> <<>>,
                                       res |-> Handed(op, Err(NotRegistered(s)))]
                      ELSE IF providers[k].configured
                      THEN /\ stack' = <<>>
                           /\ providers' = providers
                           /\ last' = [call |-> i, trace |-> <<>>,
                                       res |-> Handed(op, Ok(providers[k].value))]
                      ELSE /\ stack' = <<UseFrame(i, k),
                                         FnFrame(providers[k].configureFunc, 0)>>
                           /\ trace' = <<Event("ctor", providers[k].configureFunc,
                                               k, 0, 1, Nil)>>
                           /\ \A j \in DOMAIN providers' :
                                /\ j \in DOMAIN providers
                                /\ providers'[j].configured = providers[j].configured
                                /\ providers'[j].value = providers[j].value
                                /\ providers'[j].configureFunc = providers[j].configureFunc
                           /\ last' = last
             /\ ( /\ Completes
                  /\ Len(stack) = 2
                  /\ stack[1].call = i
                  /\ Returning )
                => LET e == last'.trace[Len(last'.trace)]
                       v == Base(Top.fn) + Top.acc
                   IN  /\ e.ev = "return" /\ e.depth = 1 /\ e.key = stack[1].key
                       /\ last'.call = i
                       /\ hooks' = hooks
                       /\ IF e.err # Nil
                          THEN /\ last'.res = Handed(op, Err(e.err))
                               /\ providers' = providers
                          ELSE /\ last'.res = Handed(op, Ok(v))
                               /\ providers' =
                                    IF stack[1].live
                                    THEN [providers EXCEPT ![stack[1].key].configured = TRUE,
                                                           ![stack[1].key].value = v]
                                    ELSE providers
             /\ ( /\ Completes
                  /\ stack # <<>>
                  /\ stack[1].call = i
                  /\ last'.res.kind \in {"panic", "fatal"} )
                => /\ Len(stack) > 2 \/ ~Returning
                   /\ providers' = providers
                   /\ hooks' = hooks]_vars

\* Invoke(ExampleServiceSlot) has constructed the service, 32, from Config
\* and Logger, and returned no error and no value.
C14_Witness ==
    /\ stack = <<>>
    /\ last.call = IResolve("Invoke", "ExampleServiceSlot")
    /\ last.res = Ok(zero)
    /\ Len(last.trace) = 6
    /\ SlotKey("ExampleServiceSlot") \in DOMAIN providers
    /\ providers[SlotKey("ExampleServiceSlot")].configured
    /\ providers[SlotKey("ExampleServiceSlot")].value = 32

\* Invoke(ExampleServiceSlot) has returned the error of the constructor of
\* Config, which the constructor of the service handed on.
C14_WitnessError ==
    /\ stack = <<>>
    /\ last.call = IResolve("Invoke", "ExampleServiceSlot")
    /\ last.res = Err(FnError("config"))
    /\ Len(last.trace) = 4

\* the errors that Use, Invoke and UseHook return as values
ReturnedErrors ==
    {NotRegistered(n) : n \in SlotNames}
    \cup {FnError(f) : f \in Constructors \cup Listeners}
    \cup {[kind |-> "no injected hooks for hook of type", of |-> getTypeName(h)] :
            h \in HookNames}

\* C15 as claimed: MustUse, MustInvoke and MustUseHook panic exactly when
\* Use, Invoke and UseHook would return an error, with that error as the
\* panic value.
C15_MustPanicsWithError ==
    ( /\ stack = <<>>
      /\ last.call.op \in {"MustUse", "MustInvoke", "MustUseHook"}
      /\ last.res.kind = "panic" )
    => last.res.err \in ReturnedErrors

\* the call with operation in ops that the running code makes in this step
Calling(ops) == {i \in NextCalls : i.op \in ops /\ CallMade(i)}

\* C16 (entries are never removed).  No step takes a key out of either
\* map.  A step that is a Provide or a ProvideFunc changes the entry of the
\* key of its slot and nothing else; a ProvideHook that of the key of its
\* hook and nothing else.  Every other step (a resolution, a dispatch, a
\* return of a constructor or of a listener) leaves the keys and the hooks
\* as they are, and changes of an entry at most configured, from false to
\* true, and value, of an entry that was not configured.
C16_EntriesNeverRemoved ==
    [][/\ DOMAIN providers \subseteq DOMAIN providers'
       /\ DOMAIN hooks \subseteq DOMAIN hooks'
       /\ \A i \in Calling({"Provide", "ProvideFunc"}) :
            /\ DOMAIN providers' = DOMAIN providers \cup {SlotKey(i.slot)}
            /\ \A j \in DOMAIN providers \ {SlotKey(i.slot)} : providers'[j] = providers[j]
            /\ hooks' = hooks
       /\ \A i \in Calling({"ProvideHook"}) :
            /\ DOMAIN hooks' = DOMAIN hooks \cup {HookKey(i.hook)}
            /\ \A j \in DOMAIN hooks \ {HookKey(i.hook)} : hooks'[j] = hooks[j]
            /\ providers' = providers
       /\ Calling({"Provide", "ProvideFunc", "ProvideHook"}) = {}
          => /\ hooks' = hooks
             /\ DOMAIN providers' = DOMAIN providers
             /\ \A j \in DOMAIN providers :
                  /\ providers'[j].typeName = providers[j].typeName
                  /\ providers'[j].configureFunc = providers[j].configureFunc
                  /\ providers[j].configured
                     => /\ providers'[j].configured
                        /\ providers'[j].value = providers[j].value
                  /\ ~providers'[j].configured
                     => providers'[j].value = providers[j].value]_vars

\* Both maps have entries, of which a Use has just configured one or more
\* and left another unconfigured.
C16_Witness ==
    /\ stack = <<>>
    /\ last.call.op = "Use"
    /\ last.res.kind = "ok"
    /\ last.trace # <<>>
    /\ DOMAIN hooks # {}
    /\ \E j, k \in DOMAIN providers : providers[j].configured /\ ~providers[k].configured

\* the keys whose constructor returned a value in tr
Built(tr) == {tr[n].key : n \in {m \in DOMAIN tr : tr[m].ev = "return" /\ tr[m].err = Nil}}

\* tr is a resolution whose constructor, the first called, returned an
\* error at the end, and in which nothing was registered
FailedAtRoot(tr) ==
    /\ tr # <<>>
    /\ \A n \in DOMAIN tr : tr[n].ev \in {"ctor", "return"}
    /\ tr[1].ev = "ctor" /\ tr[1].depth = 1
    /\ tr[Len(tr)].ev = "return" /\ tr[Len(tr)].depth = 1
    /\ tr[Len(tr)].err # Nil

\* C17 (nested failure keeps partial progress).  When the constructor of
\* slot S, called by the root's Use, returns an error (its own, or the one
\* a resolution in it returned, handed on as it is), Use returns that very
\* error, the entry of S stays unconfigured with no value, and every slot
\* whose constructor returned a value during the call is configured with
\* the value built.  The root's next Use of S calls the constructor of S
\* again and, to its end, the constructor of none of those slots.
C17_PartialProgress ==
    [][\A s \in SlotNames :
         LET i == IResolve("Use", s)
             k == SlotKey(s)
             tr == last'.trace
         IN  /\ ( /\ Completes
                  /\ stack # <<>>
                  /\ stack[1].call = i
                  /\ FailedAtRoot(tr) )
                => LET e == tr[Len(tr)].err
                   IN  /\ last'.res = Err(e)
                       /\ last'.call = i
                       /\ tr[1].key = k /\ tr[Len(tr)].key = k
                       /\ \/ e = FnError(tr[1].fn)
                          \/ \E n \in DOMAIN tr : tr[n].ev = "return" /\ tr[n].depth = 3
                                                /\ tr[n].err = e
                          \/ \E n \in DOMAIN Prog(tr[1].fn) :
                               e = NotRegistered(Prog(tr[1].fn)[n].slot)
                       /\ ~providers'[k].configured
                       /\ providers'[k].value = zero
                       /\ providers'[k].configureFunc = tr[1].fn
                       /\ \A d \in Built(tr) :
                            /\ d \in DOMAIN providers'
                            /\ providers'[d].configured
                            /\ \A n \in Events(tr, "return", d) :
                                 providers'[d].value
                                   = Base(tr[n].fn) + Sum(tr[n].fn, Len(Prog(tr[n].fn)), providers')
             /\ ( /\ RootCallMade(i)
                  /\ last.call = i
                  /\ FailedAtRoot(last.trace) )
                => /\ Len(stack') = 2
                   /\ stack'[2].fn = last.trace[1].fn
                   /\ trace' = <<Event("ctor", last.trace[1].fn, k, 0, 1, Nil)>>
             /\ ( /\ Completes
                  /\ stack # <<>>
                  /\ stack[1].call = i
                  /\ last.call = i
                  /\ FailedAtRoot(last.trace) )
                => /\ tr[1] = Event("ctor", last.trace[1].fn, k, 0, 1, Nil)
                   /\ \A d \in Built(last.trace) : Events(tr, "ctor", d) = {}]_vars

\* Use(ExampleServiceSlot) failed in the constructor of the service after
\* Config and Logger were built; the next Use(ExampleServiceSlot) has
\* called the constructor of the service again and no other.
C17_Witness ==
    /\ stack = <<>>
    /\ ncalls = 5
    /\ last.call = IResolve("Use", "ExampleServiceSlot")
    /\ [n \in DOMAIN last.trace |-> <<last.trace[n].ev, last.trace[n].fn>>]
         = << <<"ctor", "service">>, <<"return", "service">> >>
    /\ \A s \in {"ConfigSlot", "LoggerSlot"} :
         /\ SlotKey(s) \in DOMAIN providers
         /\ providers[SlotKey(s)].configured
         /\ providers[SlotKey(s)].calls = 1
    /\ SlotKey("ExampleServiceSlot") \in DOMAIN providers
    /\ providers[SlotKey("ExampleServiceSlot")].calls = 2

\* Use(ExampleServiceSlot) has returned the error of the constructor of the
\* service, with Config and Logger built and configured.
C17_WitnessFailed ==
    /\ stack = <<>>
    /\ last.call = IResolve("Use", "ExampleServiceSlot")
    /\ last.res = Err(FnError("service"))
    /\ Len(last.trace) = 6
    /\ SlotKey("ConfigSlot") \in DOMAIN providers
    /\ providers[SlotKey("ConfigSlot")].value = 1
    /\ SlotKey("LoggerSlot") \in DOMAIN providers
    /\ providers[SlotKey("LoggerSlot")].value = 11
    /\ ~providers[SlotKey("ExampleServiceSlot")].configured

\* the keys whose constructor was called in tr and has not returned
Unfinished(tr) ==
    {tr[n].key : n \in {m \in DOMAIN tr :
        /\ tr[m].ev = "ctor"
        /\ ~\E r \in DOMAIN tr : r > m /\ tr[r].ev = "return"
                                  /\ tr[r].depth = tr[m].depth}}

\* C18 (a panic in a constructor is not turned into an error).  When a
\* MustUse in a constructor finds no entry for its slot, or the constructor
\* it called returns an error, the panic with that error ends the root's
\* call, whatever the operation of the root (Use, Invoke): no constructor
\* in progress returns, the maps are left as they are, and the entries of
\* the constructors that were in progress are unconfigured with no value.
\* The root's next Use of the slot calls its constructor again.
C18_PanicPropagates ==
    [][/\ \A i \in Calling({"MustUse"}) :
            (stack # <<>> /\ SlotKey(i.slot) \notin DOMAIN providers)
            => /\ stack' = <<>>
               /\ last' = [call |-> stack[1].call, trace |-> trace,
                           res |-> Panic(NotRegistered(i.slot))]
               /\ providers' = providers
               /\ hooks' = hooks
       /\ ( /\ Returning
            /\ Len(stack) > 2
            /\ stack[Len(stack) - 1].kind = "use"
            /\ stack[Len(stack) - 1].call.op = "MustUse"
            /\ TraceAfter[Len(TraceAfter)].err # Nil )
          => /\ stack' = <<>>
             /\ last'.call = stack[1].call
             /\ last'.res = Panic(TraceAfter[Len(TraceAfter)].err)
             /\ providers' = providers
             /\ hooks' = hooks
       /\ ( /\ Completes
            /\ stack # <<>>
            /\ stack[1].kind = "use"
            /\ stack[1].call.op \in {"Use", "Invoke"}
            /\ last'.res.kind = "panic" )
          => /\ Len(stack) >= 2
             /\ stack[1].key \in Unfinished(last'.trace)
             /\ \A k \in Unfinished(last'.trace) :
                  (k \in DOMAIN providers' /\ providers'[k].configureFunc # "")
                  => ~providers'[k].configured /\ providers'[k].value = zero
       /\ \A s \in SlotNames, op \in {"Use", "Invoke"} :
            ( /\ RootCallMade(IResolve("Use", s))
              /\ last.call = IResolve(op, s)
              /\ last.res.kind = "panic"
              /\ last.trace # <<>>
              /\ \A n \in DOMAIN last.trace : last.trace[n].ev \in {"ctor", "return"} )
            => /\ Len(stack') = 2
               /\ stack'[2].fn = last.trace[1].fn
               /\ trace' = <<last.trace[1]>>]_vars

\* Use(LoggerSlot) has panicked twice in the constructor of Logger, whose
\* MustUse(ConfigSlot) found no entry: the constructor was called by both.
C18_Witness ==
    /\ stack = <<>>
    /\ last.call = IResolve("Use", "LoggerSlot")
    /\ last.res = Panic(NotRegistered("ConfigSlot"))
    /\ SlotKey("LoggerSlot") \in DOMAIN providers
    /\ ~providers[SlotKey("LoggerSlot")].configured
    /\ providers[SlotKey("LoggerSlot")].calls = 2

\* Use(LoggerSlot) has panicked with the error that the constructor of
\* Config returned to the MustUse in the constructor of Logger.
C18_WitnessFailing ==
    /\ stack = <<>>
    /\ last.call = IResolve("Use", "LoggerSlot")
    /\ last.res = Panic(FnError("config"))
    /\ SlotKey("LoggerSlot") \in DOMAIN providers
    /\ ~providers[SlotKey("LoggerSlot")].configured

\* Key k was registered anew in tr while the constructor called at depth d
\* last was running.
ReRegistered(tr, k, d) ==
    \E c \in DOMAIN tr :
        /\ tr[c].ev = "ctor" /\ tr[c].depth = d /\ tr[c].key = k
        /\ \A m \in DOMAIN tr : (tr[m].ev = "ctor" /\ tr[m].depth = d) => m <= c
        /\ \E n \in DOMAIN tr : n > c /\ tr[n].ev = "register" /\ tr[n].key = k

\* the last registration of key k in tr
LastRegistration(tr, k) ==
    tr[CHOOSE n \in Events(tr, "register", k) :
         \A m \in Events(tr, "register", k) : m <= n]

\* C19 (re-registration during construction).  When the constructor of a
\* slot returns a value v after the slot's key was registered anew while
\* it ran, the resolution that called it hands v to its caller, and the
\* maps are left as the registration made them: v is not in the map.  The
\* root's next Use of the slot, after a Use in whose constructor the slot
\* was registered anew, returns the value of that Provide at once, or
\* calls the constructor of that ProvideFunc.
C19_ReRegistration ==
    [][/\ ( /\ Returning
            /\ stack[Len(stack) - 1].kind = "use"
            /\ TraceAfter[Len(TraceAfter)].err = Nil
            /\ ReRegistered(trace, stack[Len(stack) - 1].key, Len(stack) - 1) )
          => LET use == stack[Len(stack) - 1]
                 v == Base(Top.fn) + Top.acc
             IN  /\ providers' = providers
                 /\ hooks' = hooks
                 /\ IF Len(stack) = 2
                    THEN /\ stack' = <<>>
                         /\ last'.call = use.call
                         /\ last'.res = ApiResult(use.call.op, Ok(v))
                    ELSE /\ Len(stack') = Len(stack) - 2
                         /\ stack'[Len(stack')].pc = stack[Len(stack) - 2].pc + 1
                         /\ stack'[Len(stack')].acc = stack[Len(stack) - 2].acc + v
       /\ \A s \in SlotNames :
            ( /\ RootCallMade(IResolve("Use", s))
              /\ last.call = IResolve("Use", s)
              /\ last.res.kind = "ok"
              /\ ReRegistered(last.trace, SlotKey(s), 1) )
            => LET e == LastRegistration(last.trace, SlotKey(s))
               IN  IF e.fn = ""
                   THEN /\ stack' = <<>>
                        /\ last'.res = Ok(e.arg)
                        /\ last'.trace = <<>>
                   ELSE /\ Len(stack') = 2
                        /\ stack'[2].fn = e.fn
                        /\ trace' = <<Event("ctor", e.fn, SlotKey(s), 0, 1, Nil)>>]_vars

\* Use(ConfigSlot) has returned the 3 of a constructor that provided 5 for
\* ConfigSlot while it ran: the map has the 5.
C19_Witness ==
    /\ stack = <<>>
    /\ last.call = IResolve("Use", "ConfigSlot")
    /\ last.res = Ok(3)
    /\ SlotKey("ConfigSlot") \in DOMAIN providers
    /\ providers[SlotKey("ConfigSlot")].configured
    /\ providers[SlotKey("ConfigSlot")].value = 5
    /\ providers[SlotKey("ConfigSlot")].configureFunc = ""

\* Use(ConfigSlot) has returned the 4 of a constructor that registered the
\* constructor "config" for ConfigSlot while it ran: the map has that
\* entry, unconfigured.
C19_WitnessFunc ==
    /\ stack = <<>>
    /\ last.call = IResolve("Use", "ConfigSlot")
    /\ last.res = Ok(4)
    /\ SlotKey("ConfigSlot") \in DOMAIN providers
    /\ ~providers[SlotKey("ConfigSlot")].configured
    /\ providers[SlotKey("ConfigSlot")].configureFunc = "config"

\* C20 (a dispatch ranges over the listeners it started with).  A
\* ProvideHook that a listener makes on the hook being dispatched puts its
\* listeners in the map and leaves the running dispatch its list and its
\* place in it.  When the root's dispatch, made right after its
\* ProvideHook of the hook, ends after such a registration by a listener,
\* the listeners it called are the first of the root's registration, in
\* its order (all of them when none returned an error), while the map has
\* other listeners.  The root's next dispatch of the hook ranges over the
\* listeners the map has then.
C20_DispatchSnapshot ==
    [][/\ \A i \in Calling({"ProvideHook"}) :
            (stack # <<>> /\ stack[1].kind = "hook"
               /\ HookKey(stack[1].call.hook) = HookKey(i.hook))
            => /\ hooks'[HookKey(i.hook)].listeners = i.ls
               /\ stack' # <<>>
               /\ stack'[1] = stack[1]
               /\ stack'[1].ls # i.ls
       /\ \A op \in DispatchOps, h \in HookNames :
            LET i == IDispatch(op, h, 7)
                k == HookKey(h)
                tr == last'.trace
                called == Dispatched(tr)
            IN  /\ ( /\ Completes
                     /\ stack # <<>>
                     /\ stack[1].call = i
                     /\ last.call.op = "ProvideHook"
                     /\ last.call.hook = h
                     /\ Events(tr, "rehook", k) # {} )
                   => /\ called = SubSeq(last.call.ls, 1, Len(called))
                      /\ ListenerErrors(tr) = {} => called = last.call.ls
                      /\ hooks'[k].listeners # last.call.ls
                /\ ( /\ RootCallMade(i)
                     /\ last.call.op \in DispatchOps
                     /\ last.call.hook = h
                     /\ Events(last.trace, "rehook", k) # {} )
                   => IF hooks[k].listeners = <<>>
                      THEN stack' = <<>> /\ last'.trace = <<>>
                      ELSE /\ stack'[1].ls = hooks[k].listeners
                           /\ Dispatched(trace') = <<hooks[k].listeners[1]>>]_vars

\* UseHook(RoutesHook, 7) has called "rehook", which registered <<"deny">>
\* for RoutesHook, and then "mount", the second listener of the list it
\* started with; "deny" was not called.
C20_Witness ==
    /\ stack = <<>>
    /\ last.call = IDispatch("UseHook", "RoutesHook", 7)
    /\ last.res = Ok(0)
    /\ Dispatched(last.trace) = <<"rehook", "mount">>
    /\ HookKey("RoutesHook") \in DOMAIN hooks
    /\ hooks[HookKey("RoutesHook")].listeners = <<"deny">>

====
